---- MODULE Spec2Model ----
(***************************************************************************)
(* Asphalt Launcher (src/main.py): the settings store, the version catalog *)
(* (get_available_versions and AsphaltLauncher._populate_dropdown), the    *)
(* network status flag with its periodic probe, and the launch flow with   *)
(* its install worker thread.                                              *)
(*                                                                         *)
(* Strings built by f-strings are kept as the tuple of their pieces, so a  *)
(* label is <<marker, separator, identifier>>; a dict is a function.       *)
(***************************************************************************)
EXTENDS Integers, Sequences, FiniteSets, TLC

\* ------------------------------------------------------------ bounds
\* longest remote version list the external service returns
MaxRemote == 2
\* child processes spawned in one behaviour
MaxLaunches == 1
\* install worker threads started in one behaviour
MaxInstalls == 1

\* ------------------------------------------------------------ domains
Ids == {"1.20.1", "1.21"}
Types == {"release", "modded"}
Usernames == {"", "steve"}
None == "None"
Wrench == "[wrench]"
\* timestamps already in the last-played file lie below the clock
ClockBase == Cardinality(Ids) + 1

\* ------------------------------------------------------------ helpers
EmptyDict == [k \in {} |-> None]

DictPut(d, k, v) == [x \in (DOMAIN d) \cup {k} |-> IF x = k THEN v ELSE d[x]]

Range(s) == {s[i] : i \in DOMAIN s}

SeqsNoDup(S) ==
  {s \in UNION {[1..n -> S] : n \in 0..Cardinality(S)} :
      \A i, j \in DOMAIN s : i # j => s[i] # s[j]}

\* ------------------------------------------------------------ settings store
ConfigKeys == {"username", "jvm_args", "java_path"}

DefaultJvmArgs == <<"-Xms2G", "-Xmx4G">>

CustomJvmArgs == <<"-Xmx1G">>

\* the dict a JSON object parses to: the keys it has and their values
\* (the value of a key it lacks is never read)
Dict(has, u, a, p) ==
  [has |-> has,
   username |-> IF "username" \in has THEN u ELSE "",
   jvm_args |-> IF "jvm_args" \in has THEN a ELSE <<>>,
   java_path |-> IF "java_path" \in has THEN p ELSE None]

DefaultConfig == Dict(ConfigKeys, "", DefaultJvmArgs, None)

\* dict.get(key, default)
Get(d, k, default) == IF k \in d.has THEN d[k] ELSE default

\* the settings file: absent, present but unreadable (open or decode raises),
\* malformed (json.load raises), or a JSON object; a file that parses to a
\* JSON value other than an object is not among the files modelled
File(kind, d) == [kind |-> kind, data |-> d]

AbsentFile == File("absent", Dict({}, "", <<>>, None))

\* load_config without its try/except: a failing open or parse escapes
load_config_noexcept(file) ==
  IF file.kind = "absent" THEN [raised |-> FALSE, value |-> DefaultConfig]
  ELSE IF file.kind = "object" THEN [raised |-> FALSE, value |-> file.data]
  ELSE [raised |-> TRUE, value |-> file.data]

\* load_config: [raised, value]; the try/except around open and json.load
\* turns every failure into the defaults, a parsed object is returned as is
load_config(file) ==
  IF file.kind = "object"
    THEN [raised |-> FALSE, value |-> file.data]
    ELSE [raised |-> FALSE, value |-> DefaultConfig]

\* save_config writing the username alone
save_config_username_only(username, jvm_args, java_path) ==
  File("object", Dict({"username"}, username, jvm_args, java_path))

\* save_config: the file is rewritten wholesale with all three keys
save_config(username, jvm_args, java_path) ==
  File("object", Dict(ConfigKeys, username, jvm_args, java_path))

\* ------------------------------------------------------------ last played
\* max(last_played, key=last_played.get)
MaxKey(lp) == CHOOSE k \in DOMAIN lp : \A j \in DOMAIN lp : lp[j] <= lp[k]

\* save_last_played: read the mapping, set the entry, rewrite
save_last_played(lp, version_id, now) == DictPut(lp, version_id, now)

\* ------------------------------------------------------------ catalog
type_labels(t) ==
  CASE t = "release" -> "Release"
    [] t = "snapshot" -> "Snapshot"
    [] t = "old_beta" -> "Beta"
    [] t = "old_alpha" -> "Alpha"
    [] OTHER -> t

\* f"(wrench) {v}"
LocalLabel(v) == <<Wrench, " ", v>>

\* f"{type_labels.get(v['type'], v['type'])} - {vid}"
RemoteLabel(v) == <<type_labels(v.type), " - ", v.id>>

\* label.startswith(wrench)
StartsWithWrench(label) == label[1] = Wrench

\* [(label, v) for v in local]
LocalItems(local) == [i \in 1..Len(local) |-> <<LocalLabel(local[i]), local[i]>>]

\* the loop over the remote list without the seen set
RECURSIVE RemoteItems_nodedup(_, _)
RemoteItems_nodedup(remote, seen) ==
  IF remote = <<>> THEN <<>>
  ELSE LET v == Head(remote) IN
       <<<<RemoteLabel(v), v.id>>>> \o RemoteItems_nodedup(Tail(remote), seen)

\* the loop over the remote list: skip an identifier already seen
RECURSIVE RemoteItems(_, _)
RemoteItems(remote, seen) ==
  IF remote = <<>> THEN <<>>
  ELSE LET v == Head(remote) IN
       IF v.id \in seen
         THEN RemoteItems(Tail(remote), seen)
         ELSE <<<<RemoteLabel(v), v.id>>>>
                \o RemoteItems(Tail(remote), seen \cup {v.id})

\* next((i for i, (_, vid) in enumerate(items) if vid == last_vid), None),
\* as a 1-based position, 0 for None
FirstIndexOfId(items, vid) ==
  LET hits == {i \in 1..Len(items) : items[i][2] = vid} IN
  IF hits = {} THEN 0 ELSE CHOOSE i \in hits : \A j \in hits : i <= j

\* items.insert(0, items.pop(idx))
MoveToFront(items, i) ==
  <<items[i]>> \o SubSeq(items, 1, i - 1) \o SubSeq(items, i + 1, Len(items))

\* get_available_versions without lines 128-132
get_available_versions_nomove(local, remote, fetch, lp) ==
  IF fetch # "ok" THEN [raised |-> TRUE, items |-> <<>>]
  ELSE [raised |-> FALSE,
        items |-> LocalItems(local) \o RemoteItems(remote, Range(local))]

\* get_available_versions: [raised, items]; the fetch is not guarded here
get_available_versions(local, remote, fetch, lp) ==
  IF fetch # "ok" THEN [raised |-> TRUE, items |-> <<>>]
  ELSE LET items == LocalItems(local) \o RemoteItems(remote, Range(local))
           idx == IF DOMAIN lp = {} THEN 0 ELSE FirstIndexOfId(items, MaxKey(lp))
       IN [raised |-> FALSE,
           items |-> IF idx # 0 THEN MoveToFront(items, idx) ELSE items]

\* ------------------------------------------------------------ QComboBox
NoText == <<>>

\* currentText(): the text of the current item, empty when there is none
currentText(items, index) == IF index = -1 THEN NoText ELSE items[index + 1]

\* findText(text): the first index holding it, -1 when none
findText(items, text) ==
  LET hits == {i \in 1..Len(items) : items[i] = text} IN
  IF hits = {} THEN -1 ELSE (CHOOSE i \in hits : \A j \in hits : i <= j) - 1

\* setCurrentIndex(i): an index outside the list leaves no current item
setCurrentIndex(items, i) == IF i \in 0..(Len(items) - 1) THEN i ELSE -1

\* addItem on an empty box makes the first item current
AfterAddItems(items) == IF items = <<>> THEN -1 ELSE 0

\* version_map[label] = version_id for each (label, version_id) in turn
RECURSIVE MapOf(_, _)
MapOf(pairs, m) ==
  IF pairs = <<>> THEN m
  ELSE MapOf(Tail(pairs), DictPut(m, Head(pairs)[1], Head(pairs)[2]))

Labels(pairs) == [i \in 1..Len(pairs) |-> pairs[i][1]]

\* the loop of lines 536-539: the first item whose version is last_vid, -1 if none
FirstItemOfVersion(items, map, vid) ==
  LET hits == {i \in 1..Len(items) : map[items[i]] = vid} IN
  IF hits = {} THEN -1 ELSE (CHOOSE i \in hits : \A j \in hits : i <= j) - 1

\* ------------------------------------------------------------ _populate_dropdown
Build(pairs, onl, retry, fetch, raised, old_text, lp) ==
  LET items == Labels(pairs)
      map == MapOf(pairs, EmptyDict)
      found == findText(items, old_text)
      idx1 == IF found # -1 THEN found ELSE AfterAddItems(items)
      played == IF DOMAIN lp = {} THEN -1
                ELSE FirstItemOfVersion(items, map, MaxKey(lp))
  IN [items |-> items, version_map |-> map,
      currentIndex |-> IF played # -1 THEN played ELSE idx1,
      online |-> onl, retry |-> retry, fetch |-> fetch, raised |-> raised]

\* _populate_dropdown without the try/except around the fetch
populate_unguarded(old_text, onl, local, remote, fetch, lp) ==
  IF onl = "True"
    THEN IF fetch = "ok"
           THEN Build(LocalItems(local) \o RemoteItems(remote, Range(local)),
                      onl, FALSE, "ok", FALSE, old_text, lp)
           ELSE Build(LocalItems(local), onl, FALSE, "failed", TRUE, old_text, lp)
    ELSE Build(LocalItems(local), onl, TRUE, "skipped", FALSE, old_text, lp)

\* _populate_dropdown: the state of the drop-down, of _online and of the retry
\* button it leaves; only a truthy _online attempts the fetch
_populate_dropdown(old_text, onl, local, remote, fetch, lp) ==
  IF onl = "True"
    THEN IF fetch = "ok"
           THEN Build(LocalItems(local) \o RemoteItems(remote, Range(local)),
                      onl, FALSE, "ok", FALSE, old_text, lp)
           ELSE Build(LocalItems(local), "False", TRUE, "failed", FALSE, old_text, lp)
    ELSE Build(LocalItems(local), onl, TRUE, "skipped", FALSE, old_text, lp)

\* the outcomes of the fetch a rebuild makes under status onl
Fetches(onl) == IF onl = "True" THEN {"ok", "failed"} ELSE {"skipped"}

\* ------------------------------------------------------------ state
VARIABLES
  \* the file system and the remote service
  localDirs,        \* sub-directories of the versions directory, in listing order
  installed,        \* versions whose .json and .jar files both exist
  remoteList,       \* what get_version_list() returns when it succeeds
  cfgFile,          \* launcher.json
  lastPlayedFile,   \* last_played.json as the mapping load_last_played() returns
  \* AsphaltLauncher
  phase,            \* "boot", "idle", or "installing" (launch_game inside progress.exec())
  online,           \* self._online: "True", "False" or "None"
  retryVisible,     \* retry_btn shown
  items,            \* version_dropdown: the item texts
  version_map,      \* self.version_map
  currentIndex,     \* version_dropdown.currentIndex()
  cfg,              \* self.cfg
  jvm_arguments,    \* self.jvm_arguments
  java_executable,  \* self.java_executable
  current_username, \* self.current_username ("" also when never set)
  loginVisible,     \* login_lbl shown
  loginText,        \* login_lbl text, <<>> when never set
  shown,            \* the main window is shown
  rebuildScheduled, \* a QTimer.singleShot(0, _populate_dropdown) is pending
  threads,          \* the QThreads started, each with its worker's state
  frame,            \* locals of the launch_game call suspended in progress.exec(),
                    \* and the version that was selected when START was pressed
  \* history
  versions,         \* the list lines 349-354 of __init__ built, and how
  installCalls,     \* the threads install_minecraft_version has run on
  spawned,          \* the versions a child process was started for, in order
  awaiting          \* the status a probe set that no rebuild has read yet

env == <<localDirs, installed, remoteList, cfgFile, lastPlayedFile>>

dropdown == <<items, version_map, currentIndex, retryVisible>>

settings == <<cfg, jvm_arguments, java_executable>>

login == <<current_username, loginVisible, loginText>>

history == <<versions, installCalls, spawned, awaiting>>

vars == <<env, phase, online, dropdown, settings, login, shown, rebuildScheduled,
          threads, frame, history>>

\* ------------------------------------------------------------ initial states
RemoteLists == UNION {[1..n -> [id : Ids, type : Types]] : n \in 0..MaxRemote}

LastPlayedMaps ==
  UNION {{f \in [D -> 1..Cardinality(Ids)] : \A a, b \in D : a # b => f[a] # f[b]} :
           D \in SUBSET Ids}

ConfigObjects ==
  {Dict(has, u, CustomJvmArgs, "javaw") : has \in SUBSET ConfigKeys, u \in Usernames}

ConfigFiles ==
  {AbsentFile, File("unreadable", AbsentFile.data), File("malformed", AbsentFile.data)}
    \cup {File("object", d) : d \in ConfigObjects}

NoFrame == [username |-> "", version |-> None, selected |-> None]

NoVersions == [fetch |-> "none", items |-> <<>>, index |-> -1, retry |-> FALSE]

InitWith(locals, remotes, records, files) ==
  /\ localDirs \in locals
  /\ installed \in {Range(localDirs)} \cup {{}}
  /\ remoteList \in remotes
  /\ cfgFile \in files
  /\ lastPlayedFile \in records
  /\ phase = "boot"
  /\ online = "True"
  /\ retryVisible = FALSE
  /\ items = <<>>
  /\ version_map = EmptyDict
  /\ currentIndex = -1
  /\ cfg = DefaultConfig
  /\ jvm_arguments = DefaultJvmArgs
  /\ java_executable = None
  /\ current_username = ""
  /\ loginVisible = FALSE
  /\ loginText = NoText
  /\ shown = FALSE
  /\ rebuildScheduled = FALSE
  /\ threads = <<>>
  /\ frame = NoFrame
  /\ versions = NoVersions
  /\ installCalls = {}
  /\ spawned = <<>>
  /\ awaiting = "none"

\* ------------------------------------------------------------ __init__
\* the loop of lines 356-361 from position idx (0-based) on
RECURSIVE most_recent_index(_, _, _)
most_recent_index(vs, idx, mri) ==
  IF idx >= Len(vs) THEN mri
  ELSE most_recent_index(vs, idx + 1,
         IF StartsWithWrench(vs[idx + 1][1]) /\ mri = 0 THEN idx ELSE mri)

\* lines 349-369: the catalog, the retry button and the selection __init__
\* makes before it calls _populate_dropdown
init_versions(local, remote, fetch, lp) ==
  LET got == get_available_versions(local, remote, fetch, lp)
      vs == IF got.raised THEN LocalItems(local) ELSE got.items
      its == Labels(vs)
      i1 == setCurrentIndex(its, most_recent_index(vs, 0, 0))
      found == IF DOMAIN lp = {} THEN 0 ELSE FirstIndexOfId(vs, MaxKey(lp))
      i2 == IF DOMAIN lp = {} THEN i1
            ELSE setCurrentIndex(its, IF found = 0 THEN 0 ELSE found - 1)
  IN [fetch |-> fetch, items |-> vs, index |-> i2, retry |-> got.raised]

\* f"Logged in as {username}"
LoggedInAs(username) == <<"Logged in as ", username>>

\* what a run of _populate_dropdown that returns b leaves in the window
Rebuild(b) ==
  /\ items' = b.items
  /\ version_map' = b.version_map
  /\ currentIndex' = b.currentIndex
  /\ retryVisible' = b.retry
  /\ awaiting' = IF awaiting = online THEN "none" ELSE awaiting

\* the run of _populate_dropdown on the present state, its fetch ending as f
Populated(f) ==
  _populate_dropdown(currentText(items, currentIndex), online, localDirs,
                     remoteList, f, lastPlayedFile)

\* AsphaltLauncher.__init__ followed by launcher.show(); f1 is how the fetch of
\* get_available_versions ends, f2 how that of _populate_dropdown ends
StartupWith(f1, f2) ==
  /\ phase = "boot"
  /\ LET loaded == load_config(cfgFile)
         first == init_versions(localDirs, remoteList, f1, lastPlayedFile)
         b == _populate_dropdown(currentText(Labels(first.items), first.index),
                                 online, localDirs, remoteList, f2, lastPlayedFile)
     IN IF loaded.raised \/ b.raised
          THEN /\ phase' = "crashed"
               /\ UNCHANGED <<env, online, dropdown, settings, login, shown,
                              rebuildScheduled, threads, frame, history>>
          ELSE /\ phase' = "idle"
               /\ cfg' = loaded.value
               /\ java_executable' = Get(loaded.value, "java_path", None)
               /\ jvm_arguments' = Get(loaded.value, "jvm_args", DefaultJvmArgs)
               /\ loginVisible' = (Get(loaded.value, "username", "") # "")
               /\ loginText' = IF Get(loaded.value, "username", "") # ""
                                 THEN LoggedInAs(loaded.value.username)
                                 ELSE NoText
               /\ versions' = first
               /\ Rebuild(b)
               /\ online' = b.online
               /\ shown' = TRUE
               /\ UNCHANGED <<env, current_username, rebuildScheduled, threads,
                              frame, installCalls, spawned>>

Startup == \E f1, f2 \in {"ok", "failed"} : StartupWith(f1, f2)

\* ------------------------------------------------------------ the drop-down
\* the user picks item i of the version list
SelectVersion(i) ==
  /\ phase = "idle"
  /\ i \in 0..(Len(items) - 1)
  /\ i # currentIndex
  /\ currentIndex' = i
  /\ UNCHANGED <<env, phase, online, items, version_map, retryVisible, settings,
                 login, shown, rebuildScheduled, threads, frame, history>>

\* _populate_dropdown run as a slot of its own: an exception ends the slot
PopulateSlot(f) ==
  IF Populated(f).raised
    THEN UNCHANGED <<dropdown, online, awaiting>>
    ELSE /\ Rebuild(Populated(f))
         /\ online' = Populated(f).online

\* retry_btn.clicked -> _populate_dropdown
RefreshWith(f) ==
  /\ phase = "idle"
  /\ retryVisible
  /\ f \in Fetches(online)
  /\ PopulateSlot(f)
  /\ UNCHANGED <<env, phase, settings, login, shown, rebuildScheduled, threads,
                 frame, versions, installCalls, spawned>>

Refresh == \E f \in {"ok", "failed", "skipped"} : RefreshWith(f)

\* ------------------------------------------------------------ the probe
\* _check_network without the QTimer.singleShot
check_network_norebuild(new_state) ==
  /\ phase \in {"idle", "installing"}
  /\ ~rebuildScheduled
  /\ online' = new_state
  /\ awaiting' = IF new_state # online THEN new_state ELSE awaiting
  /\ UNCHANGED <<env, phase, dropdown, settings, login, shown, rebuildScheduled,
                 threads, frame, versions, installCalls, spawned>>

\* _network_timer.timeout -> _check_network; the event loop runs the zero
\* timer it arms before the 3000 ms timer fires again
_check_network(new_state) ==
  /\ phase \in {"idle", "installing"}
  /\ ~rebuildScheduled
  /\ IF new_state # online
       THEN /\ online' = new_state
            /\ rebuildScheduled' = TRUE
            /\ awaiting' = new_state
       ELSE UNCHANGED <<online, rebuildScheduled, awaiting>>
  /\ UNCHANGED <<env, phase, dropdown, settings, login, shown, threads, frame,
                 versions, installCalls, spawned>>

CheckNetwork == \E new_state \in {"True", "False"} : _check_network(new_state)

\* the QTimer.singleShot(0, self._populate_dropdown) fires
TimerPopulateWith(f) ==
  /\ phase \in {"idle", "installing"}
  /\ rebuildScheduled
  /\ f \in Fetches(online)
  /\ rebuildScheduled' = FALSE
  /\ PopulateSlot(f)
  /\ UNCHANGED <<env, phase, settings, login, shown, threads, frame, versions,
                 installCalls, spawned>>

TimerPopulate == \E f \in {"ok", "failed", "skipped"} : TimerPopulateWith(f)

\* ------------------------------------------------------------ the account dialog
\* open_account_popup closed by Save & Exit with the text typed, stripped
AccountSave(username) ==
  /\ phase = "idle"
  /\ cfgFile' = save_config(username, jvm_arguments, java_executable)
  /\ current_username' = username
  /\ loginText' = LoggedInAs(username)
  /\ loginVisible' = TRUE
  /\ UNCHANGED <<localDirs, installed, remoteList, lastPlayedFile, phase, online,
                 dropdown, settings, shown, rebuildScheduled, threads, frame, history>>

\* open_account_popup closed by Logout
AccountLogout ==
  /\ phase = "idle"
  /\ cfgFile' = save_config("", jvm_arguments, java_executable)
  /\ current_username' = ""
  /\ loginVisible' = FALSE
  /\ UNCHANGED <<localDirs, installed, remoteList, lastPlayedFile, phase, online,
                 dropdown, settings, loginText, shown, rebuildScheduled, threads,
                 frame, history>>

\* open_account_popup dismissed: the result is Rejected and nothing is written
AccountDismiss ==
  /\ phase = "idle"
  /\ UNCHANGED vars

\* ------------------------------------------------------------ launching
\* install_minecraft_version succeeded: the version's directory and files exist
\* (a new directory is listed last)
InstallFiles(dirs, inst, version) ==
  [localDirs |-> IF version \in Range(dirs) THEN dirs ELSE Append(dirs, version),
   installed |-> inst \cup {version}]

LaunchOutcomes == {"install_raises", "command_raises", "spawn_raises", "exited"}

\* launch_minecraft as launch_game calls it (the exception it raises is caught
\* and printed there): install, build the command, spawn, record, wait
launch_minecraft(version, outcome, dirs, inst, lp, procs) ==
  LET fs == IF outcome = "install_raises"
              THEN [localDirs |-> dirs, installed |-> inst]
              ELSE InstallFiles(dirs, inst, version)
  IN [localDirs |-> fs.localDirs, installed |-> fs.installed,
      lastPlayedFile |-> IF outcome = "exited"
                           THEN save_last_played(lp, version, ClockBase + Len(procs))
                           ELSE lp,
      spawned |-> IF outcome = "exited" THEN Append(procs, version) ELSE procs]

\* the version the drop-down shows as selected, None when it shows none
SelectedVersion == IF currentIndex = -1 THEN None ELSE version_map[items[currentIndex + 1]]

\* load_config().get("username", "") unless self.current_username is set
LaunchUsername ==
  IF current_username # "" THEN current_username
  ELSE Get(load_config(cfgFile).value, "username", "")

\* self.version_map[selected_label] raises KeyError
LaunchKeyError(b) == currentText(b.items, b.currentIndex) \notin DOMAIN b.version_map

\* version_id = self.version_map[selected_label]
LaunchVersion(b) ==
  IF LaunchKeyError(b) THEN None
  ELSE b.version_map[currentText(b.items, b.currentIndex)]

\* START pressed: launch_game up to progress.exec(), or to its end when the
\* version's files are already there; f is how the fetch ends, outcome how
\* launch_minecraft ends
LaunchGameWith(f, outcome) ==
  /\ phase = "idle"
  /\ f \in Fetches(online)
  /\ LET b == Populated(f)
         version_id == LaunchVersion(b)
         proceed == ~LaunchKeyError(b) /\ LaunchUsername # ""
         direct == proceed /\ version_id \in installed
         worker == proceed /\ version_id \notin installed
         lm == launch_minecraft(version_id, outcome, localDirs, installed,
                                lastPlayedFile, spawned)
     IN /\ direct /\ outcome = "exited" => Len(spawned) < MaxLaunches
        /\ ~direct => outcome = "exited"
        /\ worker => Len(threads) < MaxInstalls
        /\ Rebuild(b)
        /\ online' = None
        /\ cfgFile' = IF proceed
                        THEN save_config(LaunchUsername, jvm_arguments, java_executable)
                        ELSE cfgFile
        /\ localDirs' = IF direct THEN lm.localDirs ELSE localDirs
        /\ installed' = IF direct THEN lm.installed ELSE installed
        /\ lastPlayedFile' = IF direct THEN lm.lastPlayedFile ELSE lastPlayedFile
        /\ spawned' = IF direct THEN lm.spawned ELSE spawned
        /\ installCalls' = IF direct THEN installCalls \cup {"ui"} ELSE installCalls
        /\ threads' = IF worker
                        THEN Append(threads, [version |-> version_id, st |-> "running"])
                        ELSE threads
        /\ frame' = IF worker
                      THEN [username |-> LaunchUsername, version |-> version_id,
                            selected |-> SelectedVersion]
                      ELSE NoFrame
        /\ phase' = IF worker THEN "installing" ELSE "idle"
        /\ UNCHANGED <<remoteList, settings, login, shown, rebuildScheduled, versions>>

LaunchGame ==
  \E f \in {"ok", "failed", "skipped"}, outcome \in LaunchOutcomes :
    LaunchGameWith(f, outcome)

\* InstallWorker.run on its thread: the install succeeds and finished is
\* emitted, or it raises and failed is emitted
WorkerRun(i, ok) ==
  /\ i \in DOMAIN threads
  /\ threads[i].st = "running"
  /\ LET fs == InstallFiles(localDirs, installed, threads[i].version) IN
       /\ localDirs' = IF ok THEN fs.localDirs ELSE localDirs
       /\ installed' = IF ok THEN fs.installed ELSE installed
  /\ threads' = [threads EXCEPT ![i].st = IF ok THEN "finished" ELSE "failed"]
  /\ installCalls' = installCalls \cup {"worker"}
  /\ UNCHANGED <<remoteList, cfgFile, lastPlayedFile, phase, online, dropdown,
                 settings, login, shown, rebuildScheduled, frame, versions,
                 spawned, awaiting>>

\* launch_game without the test of progress.result()
resume_ignoring_result(accepted, outcome) ==
  LET lm == launch_minecraft(frame.version, outcome, localDirs, installed,
                             lastPlayedFile, spawned)
  IN /\ outcome = "exited" => Len(spawned) < MaxLaunches
     /\ localDirs' = lm.localDirs
     /\ installed' = lm.installed
     /\ lastPlayedFile' = lm.lastPlayedFile
     /\ spawned' = lm.spawned
     /\ installCalls' = installCalls \cup {"ui"}
     /\ phase' = "idle"
     /\ frame' = NoFrame

\* launch_game from progress.exec() returning to its end: it returns at once
\* unless the dialog was accepted
launch_game_resume(accepted, outcome) ==
  LET lm == launch_minecraft(frame.version, outcome, localDirs, installed,
                             lastPlayedFile, spawned)
  IN /\ accepted /\ outcome = "exited" => Len(spawned) < MaxLaunches
     /\ ~accepted => outcome = "exited"
     /\ localDirs' = IF accepted THEN lm.localDirs ELSE localDirs
     /\ installed' = IF accepted THEN lm.installed ELSE installed
     /\ lastPlayedFile' = IF accepted THEN lm.lastPlayedFile ELSE lastPlayedFile
     /\ spawned' = IF accepted THEN lm.spawned ELSE spawned
     /\ installCalls' = IF accepted THEN installCalls \cup {"ui"} ELSE installCalls
     /\ phase' = "idle"
     /\ frame' = NoFrame

\* worker.finished reaches the UI thread while launch_game waits in
\* progress.exec(): progress.accept, thread.quit, and launch_game goes on
DeliverFinishedWith(i, outcome) ==
  /\ i \in DOMAIN threads
  /\ threads[i].st = "finished"
  /\ phase = "installing"
  /\ threads' = [threads EXCEPT ![i].st = "stopped"]
  /\ launch_game_resume(TRUE, outcome)
  /\ UNCHANGED <<remoteList, cfgFile, online, dropdown, settings, login, shown,
                 rebuildScheduled, versions, awaiting>>

DeliverFinished ==
  \E i \in 1..MaxInstalls, outcome \in LaunchOutcomes : DeliverFinishedWith(i, outcome)

\* worker.failed reaches the UI thread: progress.reject and the message box,
\* and launch_game returns; nothing is connected that quits the thread
DeliverFailed(i) ==
  /\ i \in DOMAIN threads
  /\ threads[i].st = "failed"
  /\ phase = "installing"
  /\ threads' = [threads EXCEPT ![i].st = "waiting"]
  /\ launch_game_resume(FALSE, "exited")
  /\ UNCHANGED <<remoteList, cfgFile, online, dropdown, settings, login, shown,
                 rebuildScheduled, versions, awaiting>>

\* ------------------------------------------------------------ specification
Next ==
  \/ Startup
  \/ \E i \in 0..(2 * Cardinality(Ids)) : SelectVersion(i)
  \/ Refresh
  \/ CheckNetwork
  \/ TimerPopulate
  \/ \E username \in Usernames : AccountSave(username)
  \/ AccountLogout
  \/ AccountDismiss
  \/ LaunchGame
  \/ \E i \in 1..MaxInstalls, ok \in BOOLEAN : WorkerRun(i, ok)
  \/ DeliverFinished
  \/ \E i \in 1..MaxInstalls : DeliverFailed(i)

\* the remote list of the scenarios of the specification, section 8
ScenarioRemote ==
  <<[id |-> "1.20.1", type |-> "release"], [id |-> "1.21", type |-> "release"]>>

ScenarioPlayed == [v \in {"1.21"} |-> 1]

SomeConfigFiles ==
  {AbsentFile, File("object", Dict(ConfigKeys, "steve", CustomJvmArgs, "javaw"))}

\* every settings file over one catalog, and a few settings files over the
\* catalogs of the scenarios
Init ==
  \/ InitWith({<<"1.20.1">>}, {ScenarioRemote}, {EmptyDict}, ConfigFiles)
  \/ InitWith({<<>>, <<"1.20.1">>}, {ScenarioRemote}, {EmptyDict, ScenarioPlayed},
              SomeConfigFiles)

Spec == Init /\ [][Next]_vars

\* one catalog and one settings file, and an event loop that runs a pending
\* zero timer
LiveInit ==
  InitWith({<<"1.20.1">>}, {ScenarioRemote}, {ScenarioPlayed},
           {File("object", Dict(ConfigKeys, "steve", CustomJvmArgs, "javaw"))})

LiveSpec == LiveInit /\ [][Next]_vars /\ WF_vars(TimerPopulate)

\* LiveSpec with an event loop that also delivers the queued signals of the
\* install worker (progress.exec() and app.exec() run it)
InstallLiveSpec ==
  /\ LiveInit
  /\ [][Next]_vars
  /\ WF_vars(TimerPopulate)
  /\ WF_vars(DeliverFinished)
  /\ WF_vars(\E i \in 1..MaxInstalls : DeliverFailed(i))

\* the catalog alone: every local directory listing, remote list and
\* last-played record within the bounds, and the operations that build it
CatalogInit ==
  InitWith(SeqsNoDup(Ids), RemoteLists, LastPlayedMaps, {AbsentFile})

CatalogNext ==
  \/ Startup
  \/ \E i \in 0..(2 * Cardinality(Ids)) : SelectVersion(i)
  \/ Refresh
  \/ CheckNetwork
  \/ TimerPopulate

CatalogSpec == CatalogInit /\ [][CatalogNext]_vars

\* ------------------------------------------------------------ claims
RemoteIds == {remoteList[i].id : i \in DOMAIN remoteList}

\* the identifiers of a list of (label, identifier) pairs, in order
IdsOf(pairs) == [i \in 1..Len(pairs) |-> pairs[i][2]]

\* the identifiers the drop-down shows, in order
ShownIds == [i \in 1..Len(items) |-> version_map[items[i]]]

Occurrences(seq, x) == Cardinality({i \in 1..Len(seq) : seq[i] = x})

\* C1: when the remote fetch fails while the catalog is built, the catalog is
\* exactly the local entries, the status is marked offline (the retry button
\* is shown and, in _populate_dropdown, _online is False), and no exception
\* escapes: __init__ completes and the slot returns normally. With no local
\* directory the catalog is then empty.
C1_FetchFailureFallsBackToLocal ==
  [][/\ \A f1 \in {"ok", "failed"} :
          StartupWith(f1, "failed")
            => /\ phase' = "idle"
               /\ items' = Labels(LocalItems(localDirs))
               /\ online' = "False"
               /\ retryVisible'
               /\ localDirs = <<>> => items' = <<>>
     /\ \A f2 \in {"ok", "failed"} :
          StartupWith("failed", f2)
            => /\ phase' = "idle"
               /\ versions'.items = LocalItems(localDirs)
               /\ versions'.retry
     /\ (RefreshWith("failed") \/ TimerPopulateWith("failed"))
          => /\ ~Populated("failed").raised
             /\ items' = Labels(LocalItems(localDirs))
             /\ online' = "False"
             /\ retryVisible'
    ]_vars

\* C1 witness: the fetch of __init__ failed and the window shows only the local
\* entries, offline, although the service lists a version that is not local
C1_Witness ==
  /\ phase = "idle"
  /\ versions.fetch = "failed"
  /\ versions.items = LocalItems(localDirs)
  /\ online = "False"
  /\ retryVisible
  /\ items = Labels(LocalItems(localDirs))
  /\ RemoteIds \ Range(localDirs) # {}

\* C2: the merged catalog, as get_available_versions returns it and as
\* _populate_dropdown shows it, holds each identifier at most once, and an
\* identifier that is both local and remote appears exactly once, under its
\* local label
C2_MergedCatalogUnique ==
  phase = "idle" =>
    /\ \A v \in Ids : Occurrences(ShownIds, v) <= 1
    /\ \A v \in Ids : Occurrences(IdsOf(versions.items), v) <= 1
    /\ \A v \in Range(localDirs) \cap RemoteIds :
         /\ Occurrences(ShownIds, v) = 1
         /\ Occurrences(items, LocalLabel(v)) = 1
         /\ Occurrences(IdsOf(versions.items), v) = 1
         /\ Occurrences(versions.items, <<LocalLabel(v), v>>) = 1

\* C2 witness: a merged catalog built from a remote list that repeats an
\* identifier that is not local and also names a local one
C2_Witness ==
  /\ phase = "idle"
  /\ online = "True"
  /\ versions.fetch = "ok"
  /\ Len(remoteList) = 2
  /\ remoteList[1].id = remoteList[2].id
  /\ remoteList[1].id \notin Range(localDirs)
  /\ Len(items) = Len(localDirs) + 1
  /\ Len(versions.items) = Len(localDirs) + 1

\* C3: with a non-empty last-played record, the list get_available_versions
\* returns starts with the identifier of the largest timestamp when the merged
\* catalog holds it, and is otherwise the local entries followed by the remote
\* entries, unmoved
C3_MostRecentFirst ==
  (phase = "idle" /\ versions.fetch = "ok") =>
    \A m \in DOMAIN lastPlayedFile :
      (\A k \in DOMAIN lastPlayedFile : lastPlayedFile[k] <= lastPlayedFile[m])
        => IF m \in Range(localDirs) \cup RemoteIds
             THEN versions.items[1][2] = m
             ELSE versions.items
                    = LocalItems(localDirs) \o RemoteItems(remoteList, Range(localDirs))

\* C3 witness: the most recently played version was moved to the front from
\* further down the merged list
C3_Witness ==
  /\ phase = "idle"
  /\ versions.fetch = "ok"
  /\ DOMAIN lastPlayedFile # {}
  /\ versions.items # <<>>
  /\ versions.items[1][2] = MaxKey(lastPlayedFile)
  /\ versions.items # LocalItems(localDirs) \o RemoteItems(remoteList, Range(localDirs))

\* C4: the version a launch runs is the one that was selected in the version
\* list when START was pressed
C4_LaunchesSelectedVersion ==
  [][/\ \A f \in {"ok", "failed", "skipped"} :
          (LaunchGameWith(f, "exited") /\ spawned' # spawned)
            => spawned'[Len(spawned')] = SelectedVersion
     /\ \A i \in 1..MaxInstalls :
          (DeliverFinishedWith(i, "exited") /\ spawned' # spawned)
            => spawned'[Len(spawned')] = frame.selected
    ]_vars

\* C5: a launch in which the install, the command construction or the spawn
\* raises leaves the last-played file, the settings file and the network
\* status as they were when the launch was requested
C5_FailedLaunchChangesNothing ==
  [][\A f \in {"ok", "failed", "skipped"} :
       \A outcome \in {"install_raises", "command_raises", "spawn_raises"} :
         LaunchGameWith(f, outcome)
           => /\ lastPlayedFile' = lastPlayedFile
              /\ cfgFile' = cfgFile
              /\ online' = online
    ]_vars

\* C6: install_minecraft_version never runs on the UI thread, only on the
\* worker thread
C6_InstallOnlyOnWorker == installCalls \subseteq {"worker"}

\* C7: the status starts Online; a probe whose result differs from the status
\* sets the status to its result and schedules a rebuild; until a rebuild has
\* read the status the probe set, that status stands and the rebuild stays
\* scheduled; and the scheduled rebuild eventually runs
C7_ProbeDrivesStatus ==
  /\ [](phase = "boot" => online = "True")
  /\ [][\A new_state \in {"True", "False"} :
          (_check_network(new_state) /\ new_state # online)
            => (online' = new_state /\ rebuildScheduled' /\ awaiting' = new_state)]_vars
  /\ [](awaiting # "none" => (rebuildScheduled /\ online = awaiting))
  /\ rebuildScheduled ~> ~rebuildScheduled

\* C7 witness: a successful probe has just moved the status from Offline to
\* Online, the window still shows the offline catalog and the rebuild is pending
C7_Witness ==
  /\ phase = "idle"
  /\ rebuildScheduled
  /\ awaiting = "True"
  /\ online = "True"
  /\ retryVisible
  /\ items = Labels(LocalItems(localDirs))
  /\ RemoteIds \ Range(localDirs) # {}

\* C8: when the worker's failure reaches launch_game, the launch is given up:
\* no process is spawned, launch_minecraft is not entered, and no last-played
\* entry is written
C8_FailedInstallAbortsLaunch ==
  [][\A i \in 1..MaxInstalls :
       DeliverFailed(i)
         => /\ phase' = "idle"
            /\ spawned' = spawned
            /\ installCalls' = installCalls
            /\ lastPlayedFile' = lastPlayedFile
    ]_vars

\* C8 witness: a launch whose install failed has ended with nothing spawned
C8_Witness ==
  /\ phase = "idle"
  /\ \E i \in DOMAIN threads : threads[i].st = "waiting"
  /\ spawned = <<>>
  /\ "ui" \notin installCalls

\* the parsed fields merged over the defaults
MergedOverDefaults(d) ==
  Dict(ConfigKeys, Get(d, "username", ""), Get(d, "jvm_args", DefaultJvmArgs),
       Get(d, "java_path", None))

\* C9: for a well-formed settings file, load() returns the file's value for
\* each key it has and the default for each key it lacks
C9_LoadMergesDefaults ==
  [][\A f1, f2 \in {"ok", "failed"} :
       (StartupWith(f1, f2) /\ cfgFile.kind = "object")
         => cfg' = MergedOverDefaults(cfgFile.data)
    ]_vars

C11_SaveLoadRoundTrip ==
  [][/\ \A u \in Usernames :
          AccountSave(u)
            => /\ ~load_config(cfgFile').raised
               /\ load_config(cfgFile').value
                    = [has |-> {"username", "jvm_args", "java_path"}, username |-> u,
                       jvm_args |-> jvm_arguments, java_path |-> java_executable]
     /\ AccountLogout
          => /\ ~load_config(cfgFile').raised
             /\ load_config(cfgFile').value
                  = [has |-> {"username", "jvm_args", "java_path"}, username |-> "",
                     jvm_args |-> jvm_arguments, java_path |-> java_executable]
     /\ \A f \in {"ok", "failed", "skipped"}, outcome \in LaunchOutcomes :
          (LaunchGameWith(f, outcome) /\ LaunchUsername # ""
             /\ ~LaunchKeyError(Populated(f)))
            => /\ ~load_config(cfgFile').raised
               /\ load_config(cfgFile').value
                    = [has |-> {"username", "jvm_args", "java_path"},
                       username |-> LaunchUsername,
                       jvm_args |-> jvm_arguments, java_path |-> java_executable]
    ]_vars

\* C11 witness: Save & Exit has written steve, the default arguments and a null
\* Java path over a file that did not hold the arguments or the path
C11_Witness ==
  /\ phase = "idle"
  /\ current_username = "steve"
  /\ jvm_arguments = DefaultJvmArgs
  /\ java_executable = None
  /\ cfgFile = File("object", [has |-> ConfigKeys, username |-> "steve",
                               jvm_args |-> DefaultJvmArgs, java_path |-> None])

\* C12: when a rebuild of the catalog completes (at startup, on a manual
\* refresh, after a probe, at the start of a launch) the retry button is
\* visible exactly when the status is Offline and hidden exactly when it is
\* Online
C12_RetryShownIffOffline ==
  [][/\ \A f1, f2 \in {"ok", "failed"} :
          (StartupWith(f1, f2) /\ phase' = "idle")
            => /\ retryVisible' <=> online' = "False"
               /\ ~retryVisible' <=> online' = "True"
     /\ \A f \in {"ok", "failed", "skipped"} :
          (RefreshWith(f) \/ TimerPopulateWith(f))
            => /\ retryVisible' <=> online' = "False"
               /\ ~retryVisible' <=> online' = "True"
     /\ \A f \in {"ok", "failed", "skipped"}, outcome \in LaunchOutcomes :
          LaunchGameWith(f, outcome)
            => /\ Populated(f).retry <=> Populated(f).online = "False"
               /\ ~Populated(f).retry <=> Populated(f).online = "True"
    ]_vars

\* C13: the entries a refresh made while Online shows are, in the same order,
\* the entries get_available_versions returns for the same local versions,
\* remote list and last-played record
C13_RefreshShowsAvailableVersions ==
  [][(RefreshWith("ok") \/ TimerPopulateWith("ok"))
       => LET got == get_available_versions(localDirs, remoteList, "ok", lastPlayedFile)
          IN /\ ~got.raised
             /\ items' = Labels(got.items)
             /\ \A k \in DOMAIN got.items :
                  version_map'[got.items[k][1]] = got.items[k][2]
    ]_vars

\* C14: in every reachable state the network status is Online or Offline
C14_StatusIsOnlineOrOffline == online \in {"True", "False"}

\* C15: once the install worker has emitted finished or failed, its thread is
\* eventually asked to quit and stops
C15_WorkerThreadStops ==
  \A i \in 1..MaxInstalls :
    (i \in DOMAIN threads /\ threads[i].st \in {"finished", "failed"})
      ~> (i \in DOMAIN threads /\ threads[i].st = "stopped")

\* C16: START pressed while the catalog is empty raises no error in
\* launch_game, spawns nothing, writes neither the settings nor the last-played
\* file, and leaves the window shown
C16_EmptyCatalogLaunchIsHarmless ==
  [][\A f \in {"failed", "skipped"}, outcome \in LaunchOutcomes :
       (LaunchGameWith(f, outcome) /\ localDirs = <<>>)
         => /\ ~LaunchKeyError(Populated(f))
            /\ spawned' = spawned
            /\ cfgFile' = cfgFile
            /\ lastPlayedFile' = lastPlayedFile
            /\ shown'
            /\ phase' = "idle"
    ]_vars

\* C17: after startup and after Save & Exit, Logout or a dismissal of the
\* account dialog, the "Logged in as" label is visible exactly when the
\* persisted username is not empty, and then it shows that username
C17_LoginLabelMatchesSavedName ==
  [][((\E f1, f2 \in {"ok", "failed"} : StartupWith(f1, f2) /\ phase' = "idle")
        \/ (\E u \in Usernames : AccountSave(u))
        \/ AccountLogout
        \/ AccountDismiss)
       => LET persisted == Get(load_config(cfgFile').value, "username", "")
          IN /\ loginVisible' <=> persisted # ""
             /\ loginVisible' => loginText' = <<"Logged in as ", persisted>>
    ]_vars

====
